---- MODULE Spec2Model ----
(***************************************************************************)
(* Strategy simulation engine of the back-tester: the four                 *)
(* simulate_strategy_N routines (src/src/strategies.py), the trade ledger  *)
(* execute_trade, and the indicator columns of add_indicators              *)
(* (src/src/indicators.py).                                                *)
(*                                                                         *)
(* Numbers.  Prices are integers.  An indicator value is a rational        *)
(* num/den with den > 0, or NaN; a comparison with NaN is false, as in     *)
(* IEEE-754.  Money (capital, profit, fees) is an integer count of         *)
(* 1/MoneyScale currency units, so that every fee is exact.  Bar indices   *)
(* are 0-based as in the code; df is a 1-based sequence, read through the  *)
(* accessors Open(k), High(k), Low(k), Close(k), Datetime(k).              *)
(***************************************************************************)
EXTENDS Integers, Sequences, FiniteSets, TLC

VARIABLES
    df,            \* the bar series passed by the caller
    params,        \* keyword arguments of the run
    variant,       \* N of the simulate_strategy_N that runs
    pc,            \* position of the caller or of the routine that runs
    i,             \* loop variable of `for i in range(1, len(df) - 1)`
    position,      \* 0 = Flat, 1 = Long
    capital,
    trades,        \* list of trade records
    entry_price,
    entry_time,
    entry_index,
    returns,       \* the returned pd.Series, as a sequence of <<key, value>>
    call_args,     \* arguments of the latest execute_trade call
    columns,       \* indicator columns of the run's private copy of df
    n_entries,     \* Flat -> Long transitions taken by the current run
    strategy_id,   \* identifier handed to get_strategy_function
    history,       \* results the caller has collected, one per finished run
    report         \* metrics computed from a trade list

vars == <<df, params, variant, pc, i, position, capital, trades,
          entry_price, entry_time, entry_index, returns, call_args,
          columns, n_entries, strategy_id, history, report>>

-----------------------------------------------------------------------------
(* Bounds of the model *)

MaxLen == 7

MaxLedger == 2

\* longest bar series of the runs checked for termination
LiveLen == 6

\* longest bar series handed to add_indicators on its own
IndicatorLen == 4

\* longest trade list handed to the metrics on its own
MaxTrades == 5

\* longest bar series of a caller's session, and the runs it makes
SessionLen == 5

MaxRuns == 2

-----------------------------------------------------------------------------
(* Program constants *)

DefaultVolume == 200

FeeRateNum == 2

FeeRateDen == 100000

DefaultInitialCapital == 1000000

\* money is counted in 1/MoneyScale currency units
MoneyScale == FeeRateDen \div (DefaultVolume * FeeRateNum)

None == "None"

-----------------------------------------------------------------------------
(* Numeric values *)

NaN == [nan |-> TRUE, num |-> 0, den |-> 1]

Val(n, d) == [nan |-> FALSE, num |-> n, den |-> d]

Gt(a, b) == ~a.nan /\ ~b.nan /\ a.num * b.den > b.num * a.den

Lt(a, b) == ~a.nan /\ ~b.nan /\ a.num * b.den < b.num * a.den

Le(a, b) == ~a.nan /\ ~b.nan /\ a.num * b.den <= b.num * a.den

Abs(x) == IF x < 0 THEN -x ELSE x

Max2(a, b) == IF a >= b THEN a ELSE b

-----------------------------------------------------------------------------
(* The bar series *)

NBars == Len(df)

Open(k) == df[k + 1].Open

High(k) == df[k + 1].High

Low(k) == df[k + 1].Low

Close(k) == df[k + 1].Close

Datetime(k) == df[k + 1].Datetime

-----------------------------------------------------------------------------
(* add_indicators: the four indicator columns, for windows w >= 1 *)

WindowFilled(w, k) == k - w + 1 >= 0

RECURSIVE RollingSumClose(_, _)
RollingSumClose(w, k) ==
    IF w = 0 THEN 0 ELSE Close(k) + RollingSumClose(w - 1, k - 1)

RollingMaxHigh(w, k) ==
    CHOOSE h \in {High(j) : j \in (k - w + 1)..k} :
        \A j \in (k - w + 1)..k : High(j) <= h

RollingMinLow(w, k) ==
    CHOOSE l \in {Low(j) : j \in (k - w + 1)..k} :
        \A j \in (k - w + 1)..k : Low(j) >= l

\* df['Close'].rolling(window=w).mean()
RollingMeanClose(w, k) ==
    IF WindowFilled(w, k) THEN Val(RollingSumClose(w, k), w) ELSE NaN

\* the quotient left as the division gives it: 0/0 on a zero range
WilliamsR_NoWhere(w, k) ==
    IF ~WindowFilled(w, k) THEN NaN
    ELSE LET hh == RollingMaxHigh(w, k)
             ll == RollingMinLow(w, k)
         IN  IF hh # ll THEN Val(-100 * (hh - Close(k)), hh - ll)
             ELSE NaN

\* -100 * (hh - Close) / (hh - ll), then .where(hh != ll, 0)
WilliamsR(w, k) ==
    IF ~WindowFilled(w, k) THEN NaN
    ELSE LET hh == RollingMaxHigh(w, k)
             ll == RollingMinLow(w, k)
         IN  IF hh # ll THEN Val(-100 * (hh - Close(k)), hh - ll)
             ELSE Val(0, 1)

MA_Short(k) == RollingMeanClose(params.ma_short, k)

MA_Long(k) == RollingMeanClose(params.ma_long, k)

Williams_1(k) == WilliamsR(params.will_period_1, k)

Williams_2(k) == WilliamsR(params.will_period_2, k)

\* the size of the move tested, whatever its direction
calculate_stop_loss_Absolute(ep, cp, ratio) ==
    Abs(ep - cp) * ratio.den >= ratio.num * Abs(ep)

\* (entry_price - current_price) / entry_price >= stop_loss_ratio
calculate_stop_loss(ep, cp, ratio) ==
    IF ep > 0 THEN (ep - cp) * ratio.den >= ratio.num * ep
    ELSE IF ep < 0 THEN (ep - cp) * ratio.den <= ratio.num * ep
    ELSE ep - cp > 0

validate_parameters(ma_short, ma_long, will_period_1, will_period_2) ==
    IF ma_short >= ma_long THEN FALSE
    ELSE IF \E x \in {ma_short, ma_long, will_period_1, will_period_2} : x <= 0
         THEN FALSE
         ELSE TRUE

-----------------------------------------------------------------------------
(* execute_trade: the trade ledger *)

Fee(price, volume, fee_rate) ==
    (price * volume * fee_rate.num * MoneyScale) \div fee_rate.den

\* the entry fee netted out of the recorded profit instead of debited apart
execute_trade_NetEntryFee(trs, cap, ep, xp, et, xt, ei, xi, volume, fee_rate, reason) ==
    LET entry_fee  == Fee(ep, volume, fee_rate)
        exit_fee   == Fee(xp, volume, fee_rate)
        profit     == (xp - ep) * volume * MoneyScale
        net_profit == profit - exit_fee - entry_fee
        cap2       == cap + net_profit
        trade_record == [entry_time  |-> et,
                         exit_time   |-> xt,
                         entry_price |-> ep,
                         exit_price  |-> xp,
                         entry_index |-> ei,
                         exit_index  |-> xi,
                         profit      |-> net_profit,
                         capital     |-> cap2,
                         entry_fee   |-> entry_fee,
                         exit_fee    |-> exit_fee,
                         exit_reason |-> reason]
    IN  [trades |-> Append(trs, trade_record), capital |-> cap2]

\* the record built before the net profit is credited to the capital
execute_trade_StaleCapital(trs, cap, ep, xp, et, xt, ei, xi, volume, fee_rate, reason) ==
    LET entry_fee  == Fee(ep, volume, fee_rate)
        exit_fee   == Fee(xp, volume, fee_rate)
        cap1       == cap - entry_fee
        profit     == (xp - ep) * volume * MoneyScale
        net_profit == profit - exit_fee
        cap2       == cap1 + net_profit
        trade_record == [entry_time  |-> et,
                         exit_time   |-> xt,
                         entry_price |-> ep,
                         exit_price  |-> xp,
                         entry_index |-> ei,
                         exit_index  |-> xi,
                         profit      |-> net_profit,
                         capital     |-> cap1,
                         entry_fee   |-> entry_fee,
                         exit_fee    |-> exit_fee,
                         exit_reason |-> reason]
    IN  [trades |-> Append(trs, trade_record), capital |-> cap2]

\* the new record put at the head of the list
execute_trade_Prepend(trs, cap, ep, xp, et, xt, ei, xi, volume, fee_rate, reason) ==
    LET entry_fee  == Fee(ep, volume, fee_rate)
        exit_fee   == Fee(xp, volume, fee_rate)
        cap1       == cap - entry_fee
        profit     == (xp - ep) * volume * MoneyScale
        net_profit == profit - exit_fee
        cap2       == cap1 + net_profit
        trade_record == [entry_time  |-> et,
                         exit_time   |-> xt,
                         entry_price |-> ep,
                         exit_price  |-> xp,
                         entry_index |-> ei,
                         exit_index  |-> xi,
                         profit      |-> net_profit,
                         capital     |-> cap2,
                         entry_fee   |-> entry_fee,
                         exit_fee    |-> exit_fee,
                         exit_reason |-> reason]
    IN  [trades |-> <<trade_record>> \o trs, capital |-> cap2]

execute_trade(trs, cap, ep, xp, et, xt, ei, xi, volume, fee_rate, reason) ==
    LET entry_fee  == Fee(ep, volume, fee_rate)
        exit_fee   == Fee(xp, volume, fee_rate)
        cap1       == cap - entry_fee
        profit     == (xp - ep) * volume * MoneyScale
        net_profit == profit - exit_fee
        cap2       == cap1 + net_profit
        trade_record == [entry_time  |-> et,
                         exit_time   |-> xt,
                         entry_price |-> ep,
                         exit_price  |-> xp,
                         entry_index |-> ei,
                         exit_index  |-> xi,
                         profit      |-> net_profit,
                         capital     |-> cap2,
                         entry_fee   |-> entry_fee,
                         exit_fee    |-> exit_fee,
                         exit_reason |-> reason]
    IN  [trades |-> Append(trs, trade_record), capital |-> cap2]

DefaultFeeRate == [num |-> FeeRateNum, den |-> FeeRateDen]

NoCall == [made |-> FALSE]

CallArgs(cap, ep, xp, volume, fee_rate) ==
    [made |-> TRUE, capital |-> cap, entry_price |-> ep, exit_price |-> xp,
     volume |-> volume, fee_rate |-> fee_rate]

-----------------------------------------------------------------------------
(* The per-bar predicates of simulate_strategy_1 .. simulate_strategy_4 *)

\* the gate without the Williams entry window
EntryGate_LongOnly(k) == k >= params.ma_long

EntryGate(k) == k >= Max2(params.ma_long, params.will_period_1)

golden_cross(k) == Gt(MA_Short(k), MA_Long(k)) /\ Le(MA_Short(k - 1), MA_Long(k - 1))

price_above_short_ma(k) == Gt(Val(Close(k), 1), MA_Short(k))

williams_oversold(k) == Lt(Williams_1(k), Val(params.will_buy_threshold_1, 1))

death_cross(k) == Lt(MA_Short(k), MA_Long(k))

price_below_long_ma(k) == Lt(Val(Close(k), 1), MA_Long(k))

williams_overbought(k) == Gt(Williams_2(k), Val(params.will_sell_threshold_2, 1))

stop_loss_triggered(k) == calculate_stop_loss(entry_price, Close(k), params.stop_loss)

\* variant 2 given the entry of variants 3 and 4
EntryTrend_OddCross(k) ==
    IF variant \in {1, 3} THEN golden_cross(k) ELSE price_above_short_ma(k)

\* variants 1 and 2 enter on the golden cross, 3 and 4 on close > short MA
EntryTrend(k) ==
    IF variant \in {1, 2} THEN golden_cross(k) ELSE price_above_short_ma(k)

\* every variant leaving on close < long MA
ExitTrend_PriceForAll(k) == price_below_long_ma(k)

\* variants 1 and 3 leave on short MA < long MA, 2 and 4 on close < long MA
ExitTrend(k) ==
    IF variant \in {1, 3} THEN death_cross(k) ELSE price_below_long_ma(k)

ExitTrendReason ==
    IF variant \in {1, 3} THEN "death_cross" ELSE "price_below_long_ma"

EntrySignal(k) == EntryTrend(k) /\ williams_oversold(k)

\* the Williams condition left out of the exit test
ExitSignal_NoWilliams(k) == ExitTrend(k) \/ stop_loss_triggered(k)

ExitSignal(k) == ExitTrend(k) \/ williams_overbought(k) \/ stop_loss_triggered(k)

\* the trend exit tested before the stop-loss
ExitReason_TrendFirst(k) ==
    IF ExitTrend(k) THEN ExitTrendReason
    ELSE IF stop_loss_triggered(k) THEN "stop_loss"
    ELSE "williams_overbought"

ExitReason(k) ==
    IF stop_loss_triggered(k) THEN "stop_loss"
    ELSE IF ExitTrend(k) THEN ExitTrendReason
    ELSE "williams_overbought"

\* the loop run over range(1, len(df))
InLoop_ToLastBar == pc = "scan" /\ i <= NBars - 1

InLoop == pc = "scan" /\ i <= NBars - 2

\* the bar indices the next step of the routine reads with .iloc
BarAccesses ==
    IF InLoop
    THEN IF position = 0 /\ EntryGate(i)
         THEN {i}
              \cup (IF variant \in {1, 2} /\ Gt(MA_Short(i), MA_Long(i))
                    THEN {i - 1} ELSE {})
              \cup (IF EntrySignal(i) THEN {i + 1} ELSE {})
         ELSE IF position = 1
              THEN {i} \cup (IF ExitSignal(i) THEN {i + 1} ELSE {})
              ELSE {}
    ELSE IF pc = "scan" /\ position = 1 /\ NBars > 1
         THEN {NBars - 1}
         ELSE {}

\* the indicator values the loop body reads at bar k in the current state
IndicatorReads(k) ==
    IF position = 0 /\ EntryGate(k)
    THEN IF variant \in {1, 2}
         THEN {MA_Short(k), MA_Long(k), Williams_1(k)}
              \cup (IF Gt(MA_Short(k), MA_Long(k))
                    THEN {MA_Short(k - 1), MA_Long(k - 1)} ELSE {})
         ELSE {MA_Short(k), Williams_1(k)}
    ELSE IF position = 1
         THEN IF variant \in {1, 3}
              THEN {MA_Short(k), MA_Long(k), Williams_2(k)}
              ELSE {MA_Long(k), Williams_2(k)}
         ELSE {}

\* the series keyed by the entry times
BuildReturns_ByEntryTime(trs) == [k \in 1..Len(trs) |-> <<trs[k].entry_time, trs[k].profit>>]

BuildReturns(trs) == [k \in 1..Len(trs) |-> <<trs[k].exit_time, trs[k].profit>>]

-----------------------------------------------------------------------------
(* Inputs *)

BarShapes ==
    { [Open |-> 100, High |-> 100, Low |-> 99,  Close |-> 99],
      [Open |-> 102, High |-> 102, Low |-> 100, Close |-> 100],
      [Open |-> 100, High |-> 101, Low |-> 100, Close |-> 101] }

TimeOf(k) == 900 + 15 * k

MakeBar(shape, k) ==
    [Datetime |-> TimeOf(k), Open |-> shape.Open, High |-> shape.High,
     Low |-> shape.Low, Close |-> shape.Close]

Series == UNION { [1..n -> BarShapes] : n \in 0..MaxLen }

\* <<ma_short, ma_long, will_period_1, will_period_2,
\*   will_buy_threshold_1, will_sell_threshold_2>>.
\* A Williams value is never above 0: threshold 1 always buys, 0 never sells.
\* The last tuple is invalid (ma_short >= ma_long).
ParamTuples ==
    { <<1, 2, 3, 3, 1, -70>>,
      <<1, 2, 3, 3, -40, -70>>,
      <<1, 2, 1, 5, 1, -70>>,
      <<2, 3, 2, 2, -40, 0>>,
      <<2, 2, 1, 1, 1, 0>> }

StopLossRatios == { [num |-> 1, den |-> 100] }

ParamSet ==
    { [ma_short |-> p[1], ma_long |-> p[2],
       will_period_1 |-> p[3], will_buy_threshold_1 |-> p[5],
       will_period_2 |-> p[4], will_sell_threshold_2 |-> p[6],
       stop_loss |-> sl,
       initial_capital |-> DefaultInitialCapital * MoneyScale] :
      p \in ParamTuples, sl \in StopLossRatios }

\* the four indicator columns add_indicators puts on its copy of df
add_indicators ==
    [k \in 1..NBars |->
        [MA_Short   |-> MA_Short(k - 1),
         MA_Long    |-> MA_Long(k - 1),
         Williams_1 |-> Williams_1(k - 1),
         Williams_2 |-> Williams_2(k - 1)]]

NoReport == [made |-> FALSE]

ValidParams ==
    validate_parameters(params.ma_short, params.ma_long,
                        params.will_period_1, params.will_period_2)

-----------------------------------------------------------------------------
(* The state machine *)

Init ==
    /\ \E s \in Series : df = [k \in 1..Len(s) |-> MakeBar(s[k], k - 1)]
    /\ params \in ParamSet
    /\ variant \in 1..4
    /\ pc = "call"
    /\ i = 0
    /\ position = 0
    /\ capital = 0
    /\ trades = <<>>
    /\ entry_price = 0
    /\ entry_time = None
    /\ entry_index = 0
    /\ returns = <<>>
    /\ call_args = NoCall
    /\ columns = <<>>
    /\ n_entries = 0
    /\ strategy_id = variant
    /\ history = <<>>
    /\ report = NoReport

\* the indicator columns written into the caller's series
Call_InPlace ==
    /\ pc = "call"
    /\ pc' = "scan"
    /\ i' = 1
    /\ position' = 0
    /\ capital' = params.initial_capital
    /\ trades' = <<>>
    /\ entry_price' = 0
    /\ entry_time' = None
    /\ entry_index' = 0
    /\ columns' = add_indicators
    /\ df' = [k \in 1..NBars |-> add_indicators[k] @@ df[k]]
    /\ n_entries' = 0
    /\ UNCHANGED <<strategy_id, history, report>>
    /\ UNCHANGED <<params, variant, returns, call_args>>

\* the account of the previous run carried into the next one
Call_CarryCapital ==
    /\ pc = "call"
    /\ pc' = "scan"
    /\ i' = 1
    /\ position' = 0
    /\ capital' = IF history = <<>> THEN params.initial_capital ELSE capital
    /\ trades' = <<>>
    /\ entry_price' = 0
    /\ entry_time' = None
    /\ entry_index' = 0
    /\ columns' = add_indicators
    /\ n_entries' = 0
    /\ UNCHANGED <<strategy_id, history, report>>
    /\ UNCHANGED <<df, params, variant, returns, call_args>>

\* entry of simulate_strategy_N: the indicator columns on a copy of df, and
\* the locals before the loop
Call ==
    /\ pc = "call"
    /\ pc' = "scan"
    /\ i' = 1
    /\ position' = 0
    /\ capital' = params.initial_capital
    /\ trades' = <<>>
    /\ entry_price' = 0
    /\ entry_time' = None
    /\ entry_index' = 0
    /\ columns' = add_indicators
    /\ n_entries' = 0
    /\ UNCHANGED <<strategy_id, history, report>>
    /\ UNCHANGED <<df, params, variant, returns, call_args>>

\* an entry that debits the entry fee as the position opens
Enter_DebitEntryFee ==
    /\ InLoop
    /\ position = 0 /\ EntryGate(i)
    /\ EntrySignal(i)
    /\ position' = 1
    /\ entry_price' = Open(i + 1)
    /\ entry_time' = Datetime(i + 1)
    /\ entry_index' = i + 1
    /\ i' = i + 1
    /\ n_entries' = n_entries + 1
    /\ capital' = capital - Fee(Open(i + 1), DefaultVolume, DefaultFeeRate)
    /\ UNCHANGED <<columns, strategy_id, history, report>>
    /\ UNCHANGED <<df, params, variant, pc, trades, returns, call_args>>

\* a loop iteration that takes the entry
Enter ==
    /\ InLoop
    /\ position = 0 /\ EntryGate(i)
    /\ EntrySignal(i)
    /\ position' = 1
    /\ entry_price' = Open(i + 1)
    /\ entry_time' = Datetime(i + 1)
    /\ entry_index' = i + 1
    /\ i' = i + 1
    /\ n_entries' = n_entries + 1
    /\ UNCHANGED <<columns, strategy_id, history, report>>
    /\ UNCHANGED <<df, params, variant, pc, capital, trades, returns, call_args>>

\* the entry test run again in the iteration that closed the position
Exit_Reenter ==
    /\ InLoop
    /\ ~(position = 0 /\ EntryGate(i))
    /\ position = 1
    /\ ExitSignal(i)
    /\ LET r == execute_trade(trades, capital, entry_price, Open(i + 1),
                              entry_time, Datetime(i + 1), entry_index, i + 1,
                              DefaultVolume, DefaultFeeRate, ExitReason(i))
       IN  /\ trades' = r.trades
           /\ capital' = r.capital
    /\ call_args' = CallArgs(capital, entry_price, Open(i + 1), DefaultVolume,
                             DefaultFeeRate)
    /\ IF EntryGate(i) /\ EntrySignal(i)
       THEN /\ position' = 1
            /\ entry_price' = Open(i + 1)
            /\ entry_time' = Datetime(i + 1)
            /\ entry_index' = i + 1
       ELSE /\ position' = 0
            /\ UNCHANGED <<entry_price, entry_time, entry_index>>
    /\ i' = i + 1
    /\ n_entries' = IF EntryGate(i) /\ EntrySignal(i) THEN n_entries + 1 ELSE n_entries
    /\ UNCHANGED <<columns, strategy_id, history, report>>
    /\ UNCHANGED <<df, params, variant, pc, returns>>

\* a loop iteration that closes the position
Exit ==
    /\ InLoop
    /\ ~(position = 0 /\ EntryGate(i))
    /\ position = 1
    /\ ExitSignal(i)
    /\ LET r == execute_trade(trades, capital, entry_price, Open(i + 1),
                              entry_time, Datetime(i + 1), entry_index, i + 1,
                              DefaultVolume, DefaultFeeRate, ExitReason(i))
       IN  /\ trades' = r.trades
           /\ capital' = r.capital
    /\ call_args' = CallArgs(capital, entry_price, Open(i + 1), DefaultVolume,
                             DefaultFeeRate)
    /\ position' = 0
    /\ i' = i + 1
    /\ UNCHANGED <<columns, n_entries, strategy_id, history, report>>
    /\ UNCHANGED <<df, params, variant, pc, entry_price, entry_time,
                   entry_index, returns>>

\* a loop iteration that changes nothing
Hold ==
    /\ InLoop
    /\ IF position = 0 /\ EntryGate(i) THEN ~EntrySignal(i)
       ELSE IF position = 1 THEN ~ExitSignal(i)
       ELSE TRUE
    /\ i' = i + 1
    /\ UNCHANGED <<columns, n_entries, strategy_id, history, report>>
    /\ UNCHANGED <<df, params, variant, pc, position, capital, trades,
                   entry_price, entry_time, entry_index, returns, call_args>>

\* the flush filled like a signalled exit, at the last bar's open
EndOfData_AtOpen ==
    /\ pc = "scan" /\ ~InLoop
    /\ position = 1 /\ NBars > 1
    /\ LET r == execute_trade(trades, capital, entry_price, Open(NBars - 1),
                              entry_time, Datetime(NBars - 1), entry_index,
                              NBars - 1, DefaultVolume, DefaultFeeRate,
                              "end_of_data")
       IN  /\ trades' = r.trades
           /\ capital' = r.capital
           /\ returns' = BuildReturns(r.trades)
    /\ call_args' = CallArgs(capital, entry_price, Open(NBars - 1),
                             DefaultVolume, DefaultFeeRate)
    /\ pc' = "done"
    /\ UNCHANGED <<columns, n_entries, strategy_id, history, report>>
    /\ UNCHANGED <<df, params, variant, i, position, entry_price, entry_time,
                   entry_index>>

\* after the loop, a position is still open: the end-of-data flush
EndOfData ==
    /\ pc = "scan" /\ ~InLoop
    /\ position = 1 /\ NBars > 1
    /\ LET r == execute_trade(trades, capital, entry_price, Close(NBars - 1),
                              entry_time, Datetime(NBars - 1), entry_index,
                              NBars - 1, DefaultVolume, DefaultFeeRate,
                              "end_of_data")
       IN  /\ trades' = r.trades
           /\ capital' = r.capital
           /\ returns' = BuildReturns(r.trades)
    /\ call_args' = CallArgs(capital, entry_price, Close(NBars - 1),
                             DefaultVolume, DefaultFeeRate)
    /\ pc' = "done"
    /\ UNCHANGED <<columns, n_entries, strategy_id, history, report>>
    /\ UNCHANGED <<df, params, variant, i, position, entry_price, entry_time,
                   entry_index>>

\* the run returning with the position still open
Return_Unflushed ==
    /\ pc = "scan" /\ ~InLoop
    /\ returns' = BuildReturns(trades)
    /\ pc' = "done"
    /\ UNCHANGED <<columns, n_entries, strategy_id, history, report>>
    /\ UNCHANGED <<df, params, variant, i, position, capital, trades,
                   entry_price, entry_time, entry_index, call_args>>

\* after the loop, nothing to flush
Return ==
    /\ pc = "scan" /\ ~InLoop
    /\ ~(position = 1 /\ NBars > 1)
    /\ returns' = BuildReturns(trades)
    /\ pc' = "done"
    /\ UNCHANGED <<columns, n_entries, strategy_id, history, report>>
    /\ UNCHANGED <<df, params, variant, i, position, capital, trades,
                   entry_price, entry_time, entry_index, call_args>>

Next == Call \/ Enter \/ Exit \/ Hold \/ EndOfData \/ Return

Spec == Init /\ [][Next]_vars

\* The runs over the series of at most LiveLen bars.  The routine is
\* straight-line code in a for loop over a finite range: it keeps stepping.
LiveInit == Init /\ NBars <= LiveLen

LiveSpec == LiveInit /\ [][Next]_vars /\ WF_vars(Next)

-----------------------------------------------------------------------------
(* Variant 1 on a flat series with one spike.  The spike is at bar          *)
(* Scenario.spike_at, or near the end of the series, where the position it *)
(* opens is still open when the bars run out.                              *)

Scenario == [len |-> 100, base |-> 100, spike |-> 150, spike_at |-> 80]

ScenarioSpikes == {Scenario.spike_at, Scenario.len - 3}

\* the spike bar opens at the base price or at the spike price
ScenarioSpikeOpens == {Scenario.base, Scenario.spike}

ScenarioBar(k, at, open) ==
    IF k = at
    THEN [Datetime |-> TimeOf(k), Open |-> open, High |-> Scenario.spike,
          Low |-> open, Close |-> Scenario.spike]
    ELSE [Datetime |-> TimeOf(k), Open |-> Scenario.base,
          High |-> Scenario.base, Low |-> Scenario.base,
          Close |-> Scenario.base]

\* ma 5/10, Williams windows 10, a buy threshold above every Williams value
\* and a sell threshold no Williams value exceeds
ScenarioParams ==
    [ma_short |-> 5, ma_long |-> 10,
     will_period_1 |-> 10, will_buy_threshold_1 |-> 1,
     will_period_2 |-> 10, will_sell_threshold_2 |-> 0,
     stop_loss |-> [num |-> 1, den |-> 100],
     initial_capital |-> DefaultInitialCapital * MoneyScale]

ScenarioInit ==
    /\ \E at \in ScenarioSpikes, open \in ScenarioSpikeOpens :
          df = [k \in 1..Scenario.len |-> ScenarioBar(k - 1, at, open)]
    /\ params = ScenarioParams
    /\ variant = 1
    /\ pc = "call"
    /\ i = 0
    /\ position = 0
    /\ capital = 0
    /\ trades = <<>>
    /\ entry_price = 0
    /\ entry_time = None
    /\ entry_index = 0
    /\ returns = <<>>
    /\ call_args = NoCall
    /\ columns = <<>>
    /\ n_entries = 0
    /\ strategy_id = variant
    /\ history = <<>>
    /\ report = NoReport

ScenarioSpec == ScenarioInit /\ [][Next]_vars

-----------------------------------------------------------------------------
(* The trade ledger on its own: execute_trade applied to arbitrary inputs *)

LedgerCapitals == {0, DefaultInitialCapital * MoneyScale}

LedgerPrices == {99, 100, 102}

LedgerVolumes == {DefaultVolume, 2 * DefaultVolume}

LedgerFeeRates ==
    { DefaultFeeRate, [num |-> 0, den |-> 1], [num |-> 1, den |-> 1000] }

LedgerInit ==
    /\ df = <<>>
    /\ params = CHOOSE p \in ParamSet : TRUE
    /\ variant = 1
    /\ pc = "ledger"
    /\ i = 0
    /\ position = 0
    /\ capital \in LedgerCapitals
    /\ trades = <<>>
    /\ entry_price = 0
    /\ entry_time = None
    /\ entry_index = 0
    /\ returns = <<>>
    /\ call_args = NoCall
    /\ columns = <<>>
    /\ n_entries = 0
    /\ strategy_id = variant
    /\ history = <<>>
    /\ report = NoReport

LedgerTrade ==
    /\ pc = "ledger"
    /\ Len(trades) < MaxLedger
    /\ \E ep \in LedgerPrices, xp \in LedgerPrices,
          volume \in LedgerVolumes, fee_rate \in LedgerFeeRates :
          LET ei == 2 * Len(trades)
              r  == execute_trade(trades, capital, ep, xp, TimeOf(ei),
                                  TimeOf(ei + 1), ei, ei + 1, volume, fee_rate,
                                  "")
          IN  /\ trades' = r.trades
              /\ capital' = r.capital
              /\ call_args' = CallArgs(capital, ep, xp, volume, fee_rate)
    /\ UNCHANGED <<columns, n_entries, strategy_id, history, report>>
    /\ UNCHANGED <<df, params, variant, pc, i, position, entry_price,
                   entry_time, entry_index, returns>>

LedgerNext == LedgerTrade

LedgerSpec == LedgerInit /\ [][LedgerNext]_vars

-----------------------------------------------------------------------------
(* add_indicators on its own, over series that have zero-range bars *)

FlatBar == [Open |-> 100, High |-> 100, Low |-> 100, Close |-> 100]

IndicatorSeries ==
    UNION { [1..n -> BarShapes \cup {FlatBar}] : n \in 0..IndicatorLen }

IndicatorParamTuples ==
    { <<1, 2, 1, 2, 1, -70>>, <<1, 2, 2, 3, 1, -70>>, <<2, 3, 3, 1, 1, -70>> }

IndicatorParamSet ==
    { [ma_short |-> p[1], ma_long |-> p[2],
       will_period_1 |-> p[3], will_buy_threshold_1 |-> p[5],
       will_period_2 |-> p[4], will_sell_threshold_2 |-> p[6],
       stop_loss |-> sl,
       initial_capital |-> DefaultInitialCapital * MoneyScale] :
      p \in IndicatorParamTuples, sl \in StopLossRatios }

IndicatorInit ==
    /\ \E s \in IndicatorSeries :
          df = [k \in 1..Len(s) |-> MakeBar(s[k], k - 1)]
    /\ params \in IndicatorParamSet
    /\ variant = 1
    /\ pc = "indicators"
    /\ i = 0
    /\ position = 0
    /\ capital = 0
    /\ trades = <<>>
    /\ entry_price = 0
    /\ entry_time = None
    /\ entry_index = 0
    /\ returns = <<>>
    /\ call_args = NoCall
    /\ columns = <<>>
    /\ n_entries = 0
    /\ strategy_id = variant
    /\ history = <<>>
    /\ report = NoReport

\* df = add_indicators(df, ma_short, ma_long, will_period_1, will_period_2)
AddIndicators ==
    /\ pc = "indicators"
    /\ columns' = add_indicators
    /\ pc' = "indicated"
    /\ UNCHANGED <<df, params, variant, i, position, capital, trades,
                   entry_price, entry_time, entry_index, returns, call_args,
                   n_entries, strategy_id, history, report>>

IndicatorNext == AddIndicators

IndicatorSpec == IndicatorInit /\ [][IndicatorNext]_vars

-----------------------------------------------------------------------------
(* The metrics of evaluation.py.  A metric is a rational num/den, or        *)
(* +infinity.                                                              *)

Zero == Val(0, 1)

Infinity == [nan |-> FALSE, num |-> 1, den |-> 0]

\* sum(t['profit'] for t in trs if t['profit'] > 0)
RECURSIVE SumOfGains(_)
SumOfGains(trs) ==
    IF trs = <<>> THEN 0
    ELSE (IF Head(trs).profit > 0 THEN Head(trs).profit ELSE 0)
         + SumOfGains(Tail(trs))

\* sum(t['profit'] for t in trs if t['profit'] < 0)
RECURSIVE SumOfLosses(_)
SumOfLosses(trs) ==
    IF trs = <<>> THEN 0
    ELSE (IF Head(trs).profit < 0 THEN Head(trs).profit ELSE 0)
         + SumOfLosses(Tail(trs))

\* a trade that broke even counted as a win
calculate_win_rate_BreakEvenWins(trs) ==
    IF trs = <<>> THEN Zero
    ELSE Val(Cardinality({k \in 1..Len(trs) : trs[k].profit >= 0}), Len(trs))

calculate_win_rate(trs) ==
    IF trs = <<>> THEN Zero
    ELSE Val(Cardinality({k \in 1..Len(trs) : trs[k].profit > 0}), Len(trs))

calculate_profit_factor(trs) ==
    IF trs = <<>> THEN Zero
    ELSE LET gross_profit == SumOfGains(trs)
             gross_loss   == Abs(SumOfLosses(trs))
         IN  IF gross_loss = 0
             THEN IF gross_profit > 0 THEN Infinity ELSE Zero
             ELSE Val(gross_profit, gross_loss)

RECURSIVE SumSeq(_)
SumSeq(xs) == IF xs = <<>> THEN 0 ELSE Head(xs) + SumSeq(Tail(xs))

ProfitsOf(trs) == [k \in 1..Len(trs) |-> trs[k].profit]

IsGain(p) == p > 0

IsLoss(p) == p < 0

\* np.mean([trade['profit'] for trade in trades])
calculate_expectancy(trs) ==
    IF trs = <<>> THEN Zero ELSE Val(SumSeq(ProfitsOf(trs)), Len(trs))

calculate_risk_reward_ratio(trs) ==
    IF trs = <<>> THEN Zero
    ELSE LET profits == SelectSeq(ProfitsOf(trs), IsGain)
             losses  == SelectSeq(ProfitsOf(trs), IsLoss)
         IN  IF profits = <<>> \/ losses = <<>> THEN Zero
             ELSE LET avg_profit == Val(SumSeq(profits), Len(profits))
                      avg_loss   == Val(Abs(SumSeq(losses)), Len(losses))
                  IN  IF avg_loss.num = 0
                      THEN IF avg_profit.num > 0 THEN Infinity ELSE Zero
                      ELSE Val(avg_profit.num * avg_loss.den,
                               avg_profit.den * avg_loss.num)

\* the values of a returns series, in money units
ValuesOf(rets) == [k \in 1..Len(rets) |-> rets[k][2]]

IntLess(a, b) == a < b

\* twice np.median(xs), for a non-empty xs
Median2(xs) ==
    LET sorted == SortSeq(xs, IntLess)
        n      == Len(xs)
    IN  IF n % 2 = 1 THEN 2 * sorted[(n + 1) \div 2]
        ELSE sorted[n \div 2] + sorted[n \div 2 + 1]

\* four times np.median(np.abs(xs - np.median(xs)))
Mad4(xs) == Median2([k \in 1..Len(xs) |-> Abs(2 * xs[k] - Median2(xs))])

\* rf = 0.04/240 of a currency unit, in money units
RiskFree == [num |-> 1, den |-> (100 * 240) \div (4 * MoneyScale)]

AllEqual(xs) == \A a \in 1..Len(xs), b \in 1..Len(xs) : xs[a] = xs[b]

\* a value the model does not evaluate: a square root or a long product
Unevaluated(what, xs) == [nan |-> FALSE, what |-> what, of |-> xs]

\* (median - rf) / mad
calculate_msr(rets) ==
    LET xs == ValuesOf(rets)
    IN  IF Len(xs) < 2 THEN Zero
        ELSE IF Mad4(xs) = 0 THEN Zero
        ELSE Val(2 * (RiskFree.den * Median2(xs) - 2 * RiskFree.num),
                 RiskFree.den * Mad4(xs))

\* (mean - rf) / std, with std the ddof=1 standard deviation
calculate_sharpe_ratio(rets) ==
    LET xs == ValuesOf(rets)
    IN  IF Len(xs) < 2 THEN Zero
        ELSE IF AllEqual(xs) THEN Zero
        ELSE Unevaluated("sharpe_ratio", xs)

\* abs(min((cumprod(1 + r) - running max) / running max))
calculate_max_drawdown(rets) ==
    IF Len(rets) = 0 THEN Zero
    ELSE Unevaluated("max_drawdown", ValuesOf(rets))

DurationsOf(trs) == [k \in 1..Len(trs) |-> trs[k].exit_index - trs[k].entry_index]

Counter(xs) ==
    [x \in {xs[k] : k \in 1..Len(xs)} |->
        Cardinality({k \in 1..Len(xs) : xs[k] = x})]

\* the averages taken whatever the number of trades
calculate_additional_metrics_AnyCount(trs) ==
    IF trs = <<>>
    THEN [avg_duration |-> Zero, exit_reasons |-> <<>>,
          shortest_5_avg |-> Zero, longest_5_avg |-> Zero]
    ELSE LET durations == DurationsOf(trs)
             sorted    == SortSeq(durations, IntLess)
             n         == Len(sorted)
             first5    == SubSeq(sorted, 1, IF n < 5 THEN n ELSE 5)
             last5     == SubSeq(sorted, IF n < 5 THEN 1 ELSE n - 4, n)
         IN  [avg_duration   |-> Val(SumSeq(durations), n),
              exit_reasons   |->
                  Counter([k \in 1..n |-> trs[k].exit_reason]),
              shortest_5_avg |-> Val(SumSeq(first5), Len(first5)),
              longest_5_avg  |-> Val(SumSeq(last5), Len(last5))]

calculate_additional_metrics(trs) ==
    IF trs = <<>>
    THEN [avg_duration |-> Zero, exit_reasons |-> <<>>,
          shortest_5_avg |-> Zero, longest_5_avg |-> Zero]
    ELSE LET durations == DurationsOf(trs)
             sorted    == SortSeq(durations, IntLess)
             n         == Len(sorted)
         IN  [avg_duration   |-> Val(SumSeq(durations), n),
              exit_reasons   |->
                  Counter([k \in 1..n |-> trs[k].exit_reason]),
              shortest_5_avg |->
                  IF n >= 5 THEN Val(SumSeq(SubSeq(sorted, 1, 5)), 5)
                  ELSE Zero,
              longest_5_avg  |->
                  IF n >= 5 THEN Val(SumSeq(SubSeq(sorted, n - 4, n)), 5)
                  ELSE Zero]

calculate_returns_stats(rets) ==
    LET xs == ValuesOf(rets)
        sorted == SortSeq(xs, IntLess)
    IN  IF Len(xs) = 0
        THEN [mean |-> Zero, std |-> Zero, min |-> Zero, max |-> Zero]
        ELSE [mean |-> Val(SumSeq(xs), Len(xs)),
              std  |-> IF Len(xs) > 1 /\ ~AllEqual(xs)
                       THEN Unevaluated("std", xs) ELSE Zero,
              min  |-> Val(sorted[1], 1),
              max  |-> Val(sorted[Len(xs)], 1)]

calculate_median_and_mad(rets) ==
    LET xs == ValuesOf(rets)
    IN  IF Len(xs) = 0 THEN [median |-> Zero, mad |-> Zero]
        ELSE [median |-> Val(Median2(xs), 2), mad |-> Val(Mad4(xs), 4)]

\* the capital generate_performance_report is written around, in money units
ReportBaseCapital == DefaultInitialCapital * MoneyScale

generate_performance_report(trs, rets, strategy_name) ==
    IF trs = <<>>
    THEN [strategy_name     |-> strategy_name,
          trade_count       |-> 0,
          win_rate          |-> Zero,
          final_capital     |-> ReportBaseCapital,
          total_return      |-> Zero,
          msr               |-> Zero,
          sharpe_ratio      |-> Zero,
          max_drawdown      |-> Zero,
          profit_factor     |-> Zero,
          expectancy        |-> Zero,
          risk_reward_ratio |-> Zero,
          avg_duration      |-> Zero,
          exit_reasons      |-> <<>>,
          returns_stats     |-> [mean |-> Zero, std |-> Zero, min |-> Zero,
                                 max |-> Zero, median |-> Zero, mad |-> Zero]]
    ELSE LET final_capital == trs[Len(trs)].capital
             more  == calculate_additional_metrics(trs)
             stats == calculate_returns_stats(rets)
             mm    == calculate_median_and_mad(rets)
         IN  [strategy_name     |-> strategy_name,
              trade_count       |-> Len(trs),
              win_rate          |-> calculate_win_rate(trs),
              final_capital     |-> final_capital,
              total_return      |-> Val(final_capital - ReportBaseCapital,
                                        ReportBaseCapital),
              msr               |-> calculate_msr(rets),
              sharpe_ratio      |-> calculate_sharpe_ratio(rets),
              max_drawdown      |-> calculate_max_drawdown(rets),
              profit_factor     |-> calculate_profit_factor(trs),
              expectancy        |-> calculate_expectancy(trs),
              risk_reward_ratio |-> calculate_risk_reward_ratio(trs),
              avg_duration      |-> more.avg_duration,
              shortest_5_avg    |-> more.shortest_5_avg,
              longest_5_avg     |-> more.longest_5_avg,
              exit_reasons      |-> more.exit_reasons,
              returns_stats     |-> [mean |-> stats.mean, std |-> stats.std,
                                     min |-> stats.min, max |-> stats.max,
                                     median |-> mm.median, mad |-> mm.mad]]

\* the strategy_name main.py passes for an identifier
StrategyName(id) == <<"strategy", id>>

MetricProfits == {-100, 0, 100, 250}

\* the k-th record of a trade list with the given profit, held for k bars
MetricTrade(p, k) ==
    [entry_time  |-> TimeOf(k * k),
     exit_time   |-> TimeOf(k * k + k),
     entry_price |-> 100,
     exit_price  |-> 100,
     entry_index |-> k * k,
     exit_index  |-> k * k + k,
     profit      |-> p,
     capital     |-> DefaultInitialCapital * MoneyScale + p,
     entry_fee   |-> 0,
     exit_fee    |-> 0,
     exit_reason |-> "end_of_data"]

MetricTradeLists ==
    UNION { { [k \in 1..n |-> MetricTrade(ps[k], k)] :
                ps \in [1..n -> MetricProfits] } : n \in 0..MaxTrades }

MetricsInit ==
    /\ df = <<>>
    /\ params = CHOOSE p \in ParamSet : TRUE
    /\ variant = 1
    /\ pc = "metrics"
    /\ i = 0
    /\ position = 0
    /\ capital = 0
    /\ trades \in MetricTradeLists
    /\ entry_price = 0
    /\ entry_time = None
    /\ entry_index = 0
    /\ returns = BuildReturns(trades)
    /\ call_args = NoCall
    /\ columns = <<>>
    /\ n_entries = 0
    /\ strategy_id = variant
    /\ history = <<>>
    /\ report = NoReport

\* report = generate_performance_report(trades, returns, strategy_name)
Evaluate ==
    /\ pc = "metrics"
    /\ report' = generate_performance_report(trades, returns,
                                              StrategyName(strategy_id))
    /\ pc' = "reported"
    /\ UNCHANGED <<df, params, variant, i, position, capital, trades,
                   entry_price, entry_time, entry_index, returns, call_args,
                   columns, n_entries, strategy_id, history>>

MetricsNext == Evaluate

MetricsSpec == MetricsInit /\ [][MetricsNext]_vars

-----------------------------------------------------------------------------
(* The caller: the loop of main.py over the strategy identifiers.  The     *)
(* identifiers are tried in any order, so that every order of runs over    *)
(* one input is covered.                                                   *)

\* the value at key N is the N of simulate_strategy_N
STRATEGY_FUNCTIONS == (1 :> 1 @@ 2 :> 2 @@ 3 :> 3 @@ 4 :> 4)

\* an unknown identifier answered with the first routine
get_strategy_function_Fallback(id) ==
    [raised |-> FALSE,
     func   |-> IF id \in DOMAIN STRATEGY_FUNCTIONS
                THEN STRATEGY_FUNCTIONS[id] ELSE 1]

get_strategy_function(id) ==
    IF id \notin DOMAIN STRATEGY_FUNCTIONS
    THEN [raised |-> TRUE, func |-> 0]
    ELSE [raised |-> FALSE, func |-> STRATEGY_FUNCTIONS[id]]

StrategyIds == 0..5

\* the two bar shapes that close at 100 or above
SessionShapes == { b \in BarShapes : b.Close >= 100 }

SessionSeries == UNION { [1..n -> SessionShapes] : n \in 0..SessionLen }

\* close > short MA needs ma_short > 1: the second tuple lets variants 3
\* and 4 trade
SessionParamTuples == { <<1, 2, 1, 1, 1, -70>>, <<2, 3, 1, 1, 1, -70>> }

\* a stop no bar of BarShapes reaches, so that the trend exits are taken
SessionStopLossRatios == { [num |-> 5, den |-> 100] }

\* the default initial_capital, and a caller passing half of it
SessionInitialCapitals ==
    { DefaultInitialCapital * MoneyScale,
      (DefaultInitialCapital \div 2) * MoneyScale }

SessionParamSet ==
    { [ma_short |-> p[1], ma_long |-> p[2],
       will_period_1 |-> p[3], will_buy_threshold_1 |-> p[5],
       will_period_2 |-> p[4], will_sell_threshold_2 |-> p[6],
       stop_loss |-> sl,
       initial_capital |-> ic] :
      p \in SessionParamTuples, sl \in SessionStopLossRatios,
      ic \in SessionInitialCapitals }

SessionInit ==
    /\ \E s \in SessionSeries : df = [k \in 1..Len(s) |-> MakeBar(s[k], k - 1)]
    /\ params \in SessionParamSet
    /\ variant = 0
    /\ pc = "idle"
    /\ i = 0
    /\ position = 0
    /\ capital = 0
    /\ trades = <<>>
    /\ entry_price = 0
    /\ entry_time = None
    /\ entry_index = 0
    /\ returns = <<>>
    /\ call_args = NoCall
    /\ columns = <<>>
    /\ n_entries = 0
    /\ strategy_id = 0
    /\ history = <<>>
    /\ report = NoReport

\* strategy_func = get_strategy_function(strategy_id)
GetStrategy ==
    /\ pc = "idle"
    /\ Len(history) < MaxRuns
    /\ \E id \in StrategyIds :
          /\ strategy_id' = id
          /\ LET r == get_strategy_function(id)
             IN  IF r.raised
                 THEN pc' = "raised" /\ UNCHANGED variant
                 ELSE pc' = "call" /\ variant' = r.func
    /\ UNCHANGED <<df, params, i, position, capital, trades, entry_price,
                   entry_time, entry_index, returns, call_args, columns,
                   n_entries, history, report>>

\* trades, returns, final_capital = strategy_func(...), then the report
Record ==
    /\ pc = "done"
    /\ history' = Append(history, [strategy_id |-> strategy_id,
                                   trades      |-> trades,
                                   returns     |-> returns,
                                   capital     |-> capital])
    /\ report' = generate_performance_report(trades, returns,
                                              StrategyName(strategy_id))
    /\ pc' = "idle"
    /\ UNCHANGED <<df, params, variant, i, position, capital, trades,
                   entry_price, entry_time, entry_index, returns, call_args,
                   columns, n_entries, strategy_id>>

SessionNext ==
    GetStrategy \/ Call \/ Enter \/ Exit \/ Hold \/ EndOfData \/ Return \/ Record

SessionSpec == SessionInit /\ [][SessionNext]_vars

-----------------------------------------------------------------------------
(* Properties *)

LastTrade == trades[Len(trades)]

\* capital recorded before trade k: the previous record's, or the initial one
CapitalBefore(k) ==
    IF k = 1 THEN params.initial_capital ELSE trades[k - 1].capital

\* C1: every execute_trade call returns, and records as `capital`,
\* capital_before - entry_fee + (exit_price - entry_price)*volume - exit_fee,
\* and records as `profit` (exit_price - entry_price)*volume - exit_fee,
\* the entry fee not being netted out of `profit`.
C1_LedgerArithmetic ==
    call_args.made =>
        LET a == call_args
            t == LastTrade
            entry_fee == (a.entry_price * a.volume * a.fee_rate.num * MoneyScale)
                            \div a.fee_rate.den
            exit_fee  == (a.exit_price * a.volume * a.fee_rate.num * MoneyScale)
                            \div a.fee_rate.den
            gross     == (a.exit_price - a.entry_price) * a.volume * MoneyScale
        IN  /\ capital = a.capital - entry_fee + gross - exit_fee
            /\ t.capital = a.capital - entry_fee + gross - exit_fee
            /\ t.profit = gross - exit_fee

C1_Witness ==
    /\ pc = "ledger"
    /\ Len(trades) = 2
    /\ LastTrade.entry_fee > 0
    /\ LastTrade.exit_price > LastTrade.entry_price
    /\ call_args.volume # DefaultVolume

\* C2 as stated: the capital recorded in trade k is the capital recorded in
\* trade k-1 (the initial capital for the first trade) plus trade k's profit.
C2_CapitalPlusProfit ==
    \A k \in 1..Len(trades) :
        trades[k].capital = CapitalBefore(k) + trades[k].profit

\* C2 amended: the capital recorded in trade k is the capital recorded in
\* trade k-1 (the initial capital for the first trade) plus trade k's profit
\* minus trade k's entry fee.
C2_CapitalPlusProfitLessEntryFee ==
    \A k \in 1..Len(trades) :
        trades[k].capital =
            CapitalBefore(k) + trades[k].profit - trades[k].entry_fee

C2_Witness ==
    /\ pc = "done"
    /\ Len(trades) >= 2
    /\ \A k \in 1..Len(trades) : trades[k].entry_fee > 0

\* C3: every trade has exit_index strictly greater than entry_index,
\* the trades closed by the end-of-data flush included.
C3_ExitAfterEntry ==
    \A k \in 1..Len(trades) : trades[k].exit_index > trades[k].entry_index


C3_Witness ==
    /\ pc = "done"
    /\ Len(trades) >= 1
    /\ LastTrade.exit_reason = "end_of_data"
    /\ LastTrade.entry_index = NBars - 1

\* two half-open intervals [a, b) and [c, d) share a bar index
Overlap(a, b, c, d) == \E x \in 0..NBars : a <= x /\ x < b /\ c <= x /\ x < d

NoOverlap ==
    \A j \in 1..Len(trades) : \A k \in 1..Len(trades) :
        j < k => ~Overlap(trades[j].entry_index, trades[j].exit_index,
                          trades[k].entry_index, trades[k].exit_index)

OpenPositionDisjoint ==
    (pc = "scan" /\ position = 1) =>
        \A k \in 1..Len(trades) : trades[k].exit_index <= entry_index

EntryOnlyWhenFlat ==
    /\ (pc = "scan" /\ position = 1) =>
           /\ entry_price' = entry_price
           /\ entry_time' = entry_time
           /\ entry_index' = entry_index
    /\ (pc = "scan" /\ pc' = "scan" /\ Len(trades') > Len(trades)) =>
           position' = 0
    /\ (position = 0 /\ position' = 1) => trades' = trades

\* C4: the position is always Flat or Long, no two trades of a run have
\* overlapping intervals [entry_index, exit_index), and an entry is taken
\* neither while a position is open nor in the iteration that signalled an
\* exit.
C4_OnePositionNoOverlap ==
    /\ [](position \in {0, 1} /\ NoOverlap /\ OpenPositionDisjoint)
    /\ [][EntryOnlyWhenFlat]_vars

C4_Witness ==
    /\ pc = "done"
    /\ Len(trades) = 2
    /\ \A k \in 1..2 : trades[k].exit_index > trades[k].entry_index
    /\ trades[2].entry_index = trades[1].exit_index + 1

ExitStep == pc = "scan" /\ pc' = "scan" /\ Len(trades') = Len(trades) + 1

ExitReasonPriority ==
    ExitStep =>
        LET reason == trades'[Len(trades')].exit_reason
            sl     == calculate_stop_loss(entry_price, Close(i), params.stop_loss)
            trend  == IF variant \in {1, 3} THEN death_cross(i)
                      ELSE price_below_long_ma(i)
        IN  /\ sl => reason = "stop_loss"
            /\ (~sl /\ trend /\ variant \in {1, 3}) => reason = "death_cross"
            /\ (~sl /\ trend /\ variant \in {2, 4}) =>
                   reason = "price_below_long_ma"
            /\ reason = "williams_overbought" =>
                   williams_overbought(i) /\ ~sl /\ ~trend

\* C5: the exit reason of a signalled exit is 'stop_loss' whenever the
\* stop-loss holds, else the variant's trend reason whenever the trend exit
\* holds, and 'williams_overbought' only when the Williams condition alone
\* holds.
C5_ExitReasonPriority == [][ExitReasonPriority]_vars

\* a stop-loss exit at a bar where the two other conditions held too
C5_Witness ==
    /\ Len(trades) >= 1
    /\ LastTrade.exit_reason = "stop_loss"
    /\ LastTrade.exit_index <= NBars - 1
    /\ ExitTrend(LastTrade.exit_index - 1)
    /\ williams_overbought(LastTrade.exit_index - 1)

\* some exit condition holds at scanned bar j for a position entered at ep
ExitConditionAt(j, ep) ==
    \/ calculate_stop_loss(ep, Close(j), params.stop_loss)
    \/ (IF variant \in {1, 3} THEN death_cross(j) ELSE price_below_long_ma(j))
    \/ williams_overbought(j)

IsFlushOfLastBar(t) ==
    /\ t.exit_reason = "end_of_data"
    /\ t.exit_price = Close(NBars - 1)
    /\ t.exit_time = Datetime(NBars - 1)
    /\ t.exit_index = NBars - 1

\* C6: a position after whose entry no exit condition holds at any scanned
\* bar yields exactly one trade, the last of the list, closed as
\* 'end_of_data' at the last bar's close, time and index; a run has at most
\* one 'end_of_data' trade and it is the last trade.
C6_EndOfDataFlush ==
    /\ pc = "done" =>
           \A k \in 1..Len(trades) :
               (\A j \in trades[k].entry_index..(NBars - 2) :
                    ~ExitConditionAt(j, trades[k].entry_price))
               => /\ k = Len(trades)
                  /\ IsFlushOfLastBar(trades[k])
                  /\ \A m \in 1..Len(trades) :
                         trades[m].entry_index = trades[k].entry_index => m = k
    /\ \A k \in 1..Len(trades) :
           trades[k].exit_reason = "end_of_data" => k = Len(trades)

\* one trade only, held over scanned bars and flushed at a close that is
\* not the last bar's open
C6_Witness ==
    /\ pc = "done"
    /\ Len(trades) = 1
    /\ trades[1].exit_reason = "end_of_data"
    /\ trades[1].exit_index > trades[1].entry_index + 1
    /\ trades[1].exit_price # Open(NBars - 1)

C6_WitnessTwo ==
    /\ pc = "done"
    /\ Len(trades) = 2
    /\ trades[2].exit_reason = "end_of_data"
    /\ trades[2].exit_index > trades[2].entry_index

EntryCondition ==
    /\ position = 0
    /\ i >= Max2(params.ma_long, params.will_period_1)
    /\ IF variant \in {1, 2}
       THEN Gt(MA_Short(i), MA_Long(i)) /\ Le(MA_Short(i - 1), MA_Long(i - 1))
       ELSE Gt(Val(Close(i), 1), MA_Short(i))
    /\ Lt(Williams_1(i), Val(params.will_buy_threshold_1, 1))

EntryTransition ==
    InLoop =>
        /\ (position = 0 /\ position' = 1) <=> EntryCondition
        /\ (position = 0 /\ position' = 1) =>
               /\ entry_price' = Open(i + 1)
               /\ entry_time' = Datetime(i + 1)
               /\ entry_index' = i + 1

EntryIndexFloor ==
    \A k \in 1..Len(trades) :
        trades[k].entry_index >=
            Max2(params.ma_long, params.will_period_1) + 1

\* C7: at a scanned bar i the run goes Flat -> Long exactly when it is Flat,
\* i >= max(ma_long, will_period_1), the variant's trend-entry predicate
\* holds at i and williams_entry[i] < will_buy_threshold; the fill is the
\* open, time and index of bar i+1, so every trade has
\* entry_index >= max(ma_long, will_period_1) + 1.
C7_EntryTransition == [][EntryTransition]_vars /\ []EntryIndexFloor

\* entries of both kinds, gated by the Williams window and by its threshold
C7_Witness ==
    /\ Len(trades) >= 1
    /\ params.will_period_1 > params.ma_long
    /\ params.will_buy_threshold_1 < 0
    /\ LastTrade.entry_index = params.will_period_1 + 1

ExitTransition ==
    (InLoop /\ position = 1) =>
        /\ position' = 0 <=> ExitConditionAt(i, entry_price)
        /\ position' = 0 =>
               /\ Len(trades') = Len(trades) + 1
               /\ trades'[Len(trades')].exit_price = Open(i + 1)
               /\ trades'[Len(trades')].exit_time = Datetime(i + 1)
               /\ trades'[Len(trades')].exit_index = i + 1
        /\ position' = 1 => trades' = trades

\* C8: while Long at a scanned bar i the position is closed exactly when one
\* of the three exit conditions holds at i, and the fill is the open, time
\* and index of bar i+1 whichever conditions triggered it.
C8_ExitTransition == [][ExitTransition]_vars

\* an exit that the Williams condition alone triggered
C8_Witness ==
    /\ Len(trades) >= 1
    /\ LastTrade.exit_reason = "williams_overbought"
    /\ LastTrade.exit_index = LastTrade.entry_index + 2

\* C9: with valid parameters every indicator value read while evaluating an
\* entry or an exit is defined, williams_exit included.
C9_ReadsDefined ==
    (ValidParams /\ InLoop) => \A v \in IndicatorReads(i) : ~v.nan

\* C10: a run with invalid parameters fails before any bar is evaluated and
\* produces no trade list.
C10_FailFast ==
    ~ValidParams => (pc = "call" /\ trades = <<>> /\ returns = <<>>)

\* the state a run works on
RunState ==
    <<i, position, capital, trades, entry_price, entry_time, entry_index,
      returns, call_args, columns, n_entries>>

\* C11: get_strategy_function hands back the routine of variant k for every
\* identifier k in 1..4; for any other identifier it raises: the caller
\* gets no routine, nothing runs afterwards, and the step leaves every
\* variable of a run and the collected results as they were.
C11_UnknownIdRaises ==
    [][ /\ pc # "raised"
        /\ pc = "idle" =>
              IF strategy_id' \in {1, 2, 3, 4}
              THEN pc' = "call" /\ variant' = strategy_id'
              ELSE /\ pc' = "raised"
                   /\ UNCHANGED <<RunState, variant, history, df>> ]_vars

C11_Witness ==
    /\ pc = "raised"
    /\ strategy_id = 5
    /\ Len(history) = 1
    /\ history[1].strategy_id = 4
    /\ Len(history[1].trades) = 1

\* C12: two runs of the same variant in one session, that is on the same
\* bars with the same parameters, return the same trade list, field for
\* field and in the same order, and the same final capital.
C12_Deterministic ==
    \A a \in 1..Len(history), b \in 1..Len(history) :
        history[a].strategy_id = history[b].strategy_id =>
            /\ history[a].trades = history[b].trades
            /\ history[a].capital = history[b].capital

C12_Witness ==
    /\ Len(history) = 2
    /\ history[1].strategy_id = history[2].strategy_id
    /\ Len(history[2].trades) = 1
    /\ history[2].trades[1].exit_reason # "end_of_data"
    /\ history[2].capital # params.initial_capital

\* One engine over an entry predicate and an exit predicate, each named by
\* its kind: entry "cross" is the golden cross and "price" is
\* close > ma_short; exit "cross" is ma_short < ma_long and "price" is
\* close < ma_long.
EngineEntry(en, k) ==
    /\ IF en = "cross" THEN golden_cross(k) ELSE price_above_short_ma(k)
    /\ williams_oversold(k)

EngineExitTrend(ex, k) ==
    IF ex = "cross" THEN death_cross(k) ELSE price_below_long_ma(k)

EngineExitName(ex) ==
    IF ex = "cross" THEN "death_cross" ELSE "price_below_long_ma"

EngineStart ==
    [position |-> 0, capital |-> params.initial_capital, trades |-> <<>>,
     entry_price |-> 0, entry_time |-> None, entry_index |-> 0]

EngineStep(en, ex, k, st) ==
    IF st.position = 0 /\ k >= Max2(params.ma_long, params.will_period_1)
    THEN IF EngineEntry(en, k)
         THEN [st EXCEPT !.position = 1, !.entry_price = Open(k + 1),
                         !.entry_time = Datetime(k + 1),
                         !.entry_index = k + 1]
         ELSE st
    ELSE IF st.position = 1
         THEN LET sl == calculate_stop_loss(st.entry_price, Close(k),
                                            params.stop_loss)
                  tr == EngineExitTrend(ex, k)
                  wo == williams_overbought(k)
                  r  == execute_trade(st.trades, st.capital, st.entry_price,
                                      Open(k + 1), st.entry_time,
                                      Datetime(k + 1), st.entry_index, k + 1,
                                      DefaultVolume, DefaultFeeRate,
                                      IF sl THEN "stop_loss"
                                      ELSE IF tr THEN EngineExitName(ex)
                                      ELSE "williams_overbought")
              IN  IF sl \/ tr \/ wo
                  THEN [st EXCEPT !.position = 0, !.trades = r.trades,
                                  !.capital = r.capital]
                  ELSE st
         ELSE st

RECURSIVE EngineScan(_, _, _, _)
EngineScan(en, ex, k, st) ==
    IF k > NBars - 2 THEN st
    ELSE EngineScan(en, ex, k + 1, EngineStep(en, ex, k, st))

EngineRun(en, ex) ==
    LET st == EngineScan(en, ex, 1, EngineStart)
    IN  IF st.position = 1 /\ NBars > 1
        THEN execute_trade(st.trades, st.capital, st.entry_price,
                           Close(NBars - 1), st.entry_time,
                           Datetime(NBars - 1), st.entry_index, NBars - 1,
                           DefaultVolume, DefaultFeeRate, "end_of_data")
        ELSE [trades |-> st.trades, capital |-> st.capital]

EntryKind(v) == IF v \in {1, 2} THEN "cross" ELSE "price"

ExitKind(v) == IF v \in {1, 3} THEN "cross" ELSE "price"

OtherExitKind(v) == IF ExitKind(v) = "cross" THEN "price" ELSE "cross"

FirstEntry(trs) ==
    IF trs = <<>> THEN None
    ELSE <<trs[1].entry_index, trs[1].entry_time, trs[1].entry_price>>

\* C13: a finished run of variant 1, 2, 3, 4 has exactly the trade list and
\* final capital of the one engine run with (cross,cross), (cross,price),
\* (price,cross), (price,price); and its first entry is the first entry of
\* the engine run that shares its entry kind and has the other exit kind.
C13_OneEngine ==
    pc = "done" =>
        /\ [trades |-> trades, capital |-> capital]
             = EngineRun(EntryKind(variant), ExitKind(variant))
        /\ FirstEntry(trades)
             = FirstEntry(EngineRun(EntryKind(variant),
                                    OtherExitKind(variant)).trades)

\* a finished run of variant 2 with two trades that the (cross,cross) and
\* the (price,price) engines do not produce
C13_Witness ==
    /\ pc = "done"
    /\ variant = 2
    /\ Len(trades) = 2
    /\ trades # EngineRun("cross", "cross").trades
    /\ trades # EngineRun("price", "price").trades

\* C14: what a run returns is consistent: the returns series has one entry
\* per trade, the k-th keyed by the k-th trade's exit_time and valued by its
\* profit; the final capital is the last trade's `capital`, or the initial
\* capital, with an empty returns series, when there is no trade.
C14_ReturnedValuesConsistent ==
    pc = "done" =>
        /\ Len(returns) = Len(trades)
        /\ \A k \in 1..Len(trades) :
              /\ returns[k][1] = trades[k].exit_time
              /\ returns[k][2] = trades[k].profit
        /\ IF trades = <<>>
           THEN capital = params.initial_capital /\ returns = <<>>
           ELSE capital = LastTrade.capital

\* a finished run with a signalled exit and a flush, and one with no trade
\* is reached as well (C14_WitnessEmpty)
C14_Witness ==
    /\ pc = "done"
    /\ Len(trades) = 2
    /\ trades[2].exit_reason = "end_of_data"
    /\ returns[1][1] # returns[2][1]
    /\ returns[1][2] # returns[2][2]

C14_WitnessEmpty == pc = "done" /\ trades = <<>> /\ NBars = MaxLen

\* C15: a run ends, having stepped i once through 1..len(df)-2; while it
\* scans, the entries taken are the trades recorded plus the position held;
\* every step that closes a position appends exactly one trade; and when
\* the run has ended every entry has its trade: the number of trades equals
\* the number of entries.
C15_TerminatesAllClosed ==
    /\ <>(pc = "done")
    /\ [](pc = "scan" => n_entries = Len(trades) + position)
    /\ [](pc = "done" => /\ n_entries = Len(trades)
                         /\ i = Max2(1, NBars - 1))
    /\ [][ /\ (pc = "scan" /\ pc' = "scan") => i' = i + 1
           /\ (pc = "scan" /\ position = 1 /\ (position' = 0 \/ pc' = "done"))
                 => /\ Len(trades') = Len(trades) + 1
                    /\ call_args'.made
                    /\ call_args'.entry_price = entry_price
           /\ Len(trades') # Len(trades)
                 => pc = "call" \/ (pc = "scan" /\ position = 1) ]_vars

\* a finished run with two entries, the last closed by the flush
C15_Witness ==
    /\ pc = "done"
    /\ n_entries = 2
    /\ Len(trades) = 2
    /\ LastTrade.exit_reason = "end_of_data"

HighestHigh(w, k) ==
    CHOOSE h \in {High(j) : j \in (k - w + 1)..k} :
        \A j \in (k - w + 1)..k : h >= High(j)

LowestLow(w, k) ==
    CHOOSE l \in {Low(j) : j \in (k - w + 1)..k} :
        \A j \in (k - w + 1)..k : l <= Low(j)

\* what the claim asks of the oscillator value v at bar k for window w
WilliamsAsClaimed(v, w, k) ==
    IF k < w - 1 THEN v.nan
    ELSE LET hh == HighestHigh(w, k)
             ll == LowestLow(w, k)
         IN  /\ ~v.nan
             /\ v.den # 0
             /\ IF hh = ll THEN v.num = 0
                ELSE v.num * (hh - ll) = -100 * (hh - Close(k)) * v.den

ZeroRange(w, k) == k >= w - 1 /\ HighestHigh(w, k) = LowestLow(w, k)

\* C16: in the columns add_indicators returns, each Williams oscillator,
\* over its own window, is undefined at a bar whose window is not filled,
\* exactly 0 at a bar whose filled window has highest high = lowest low,
\* and -100*(highest high - close)/(highest high - lowest low) elsewhere.
C16_WilliamsZeroRange ==
    pc = "indicated" =>
        /\ Len(columns) = NBars
        /\ \A k \in 0..(NBars - 1) :
              /\ WilliamsAsClaimed(columns[k + 1].Williams_1,
                                   params.will_period_1, k)
              /\ WilliamsAsClaimed(columns[k + 1].Williams_2,
                                   params.will_period_2, k)

\* one bar where the entry window has zero range and the exit window does
\* not, one where it is the other way round, and an unfilled window
C16_Witness ==
    /\ pc = "indicated"
    /\ \E k \in 0..(NBars - 1) :
          /\ ZeroRange(params.will_period_1, k)
          /\ k >= params.will_period_2 - 1
          /\ ~ZeroRange(params.will_period_2, k)
          /\ columns[k + 1].Williams_2.num # 0
    /\ \E k \in 0..(NBars - 1) :
          /\ ZeroRange(params.will_period_2, k)
          /\ params.will_period_2 > 1
    /\ columns[1].Williams_2.nan

Wins == {k \in 1..Len(trades) : trades[k].profit > 0}

Losses == {k \in 1..Len(trades) : trades[k].profit < 0}

RECURSIVE ProfitOver(_)
ProfitOver(S) ==
    IF S = {} THEN 0
    ELSE LET k == CHOOSE x \in S : TRUE
         IN  trades[k].profit + ProfitOver(S \ {k})

\* the metric m is the quotient n/d
IsQuotient(m, n, d) == ~m.nan /\ m.den # 0 /\ m.num * d = n * m.den

\* C17: win_rate and profit_factor are 0 for an empty trade list; otherwise
\* win_rate is the number of trades with profit > 0 over the number of
\* trades, and profit_factor is +infinity with a gain and no loss, 0 with
\* neither gain nor loss, and the sum of the gains over the absolute sum of
\* the losses in every other case; a profit of exactly 0 is neither.
C17_WinRateProfitFactor ==
    pc = "reported" =>
        IF trades = <<>>
        THEN report.win_rate = Zero /\ report.profit_factor = Zero
        ELSE /\ IsQuotient(report.win_rate, Cardinality(Wins), Len(trades))
             /\ IF Losses = {} /\ Wins # {}
                THEN report.profit_factor = Infinity
                ELSE IF Losses = {} /\ Wins = {}
                THEN report.profit_factor = Zero
                ELSE IsQuotient(report.profit_factor, ProfitOver(Wins),
                                Abs(ProfitOver(Losses)))

\* a report on a list with a gain, a loss and a break-even trade
C17_Witness ==
    /\ pc = "reported"
    /\ Len(trades) = 3
    /\ Cardinality(Wins) = 1
    /\ Cardinality(Losses) = 1
    /\ report.profit_factor = Val(250, 100)
    /\ report.win_rate = Val(1, 3)

\* what variant v returns when it is run alone on df with params
RunAlone(v) == EngineRun(EntryKind(v), ExitKind(v))

LossReachesRatio(k) ==
    (entry_price - Close(k)) * params.stop_loss.den
        >= params.stop_loss.num * entry_price

\* C19: with a positive ratio and a positive entry price, the stop-loss
\* test of the bar being scanned holds exactly when
\* (entry_price - close)/entry_price >= stop_loss_ratio; it does not hold
\* when close >= entry_price; and it holds at entry 100, close 99, ratio 1%.
C19_StopLossAdverseOnly ==
    /\ (InLoop /\ position = 1 /\ entry_price > 0 /\ params.stop_loss.num > 0) =>
          /\ stop_loss_triggered(i) <=> LossReachesRatio(i)
          /\ Close(i) >= entry_price => ~stop_loss_triggered(i)
    /\ calculate_stop_loss(100, 99, [num |-> 1, den |-> 100])

\* a position entered at 100 and stopped at a close of 99, after a bar that
\* closed above the entry price without stopping it
C19_Witness ==
    /\ trades # <<>>
    /\ LastTrade.exit_reason = "stop_loss"
    /\ LastTrade.entry_price = 100
    /\ Close(LastTrade.exit_index - 1) = 99
    /\ LastTrade.exit_index > LastTrade.entry_index + 1
    /\ Close(LastTrade.entry_index) > LastTrade.entry_price

\* C20: a step that changes the trade list of a run appends one record and
\* leaves every earlier record as it was; along the list exit_index is
\* strictly increasing, and each entry_index is greater than the previous
\* exit_index (an exit filled at i+1 is followed by an entry filled at i+2
\* at the earliest).
C20_AppendOnlyOrdered ==
    /\ [][(pc # "call" /\ trades' # trades) =>
             /\ Len(trades') = Len(trades) + 1
             /\ SubSeq(trades', 1, Len(trades)) = trades]_vars
    /\ [](\A k \in 2..Len(trades) :
            /\ trades[k].exit_index > trades[k - 1].exit_index
            /\ trades[k].entry_index > trades[k - 1].exit_index
            /\ trades[k].entry_index >= (trades[k - 1].exit_index - 1) + 2)

\* two trades, the second entered on the bar after the first one's exit
C20_Witness ==
    /\ Len(trades) = 2
    /\ trades[2].entry_index = trades[1].exit_index + 1
    /\ trades[1].exit_reason # "end_of_data"
    /\ trades[2].exit_reason # "end_of_data"
    /\ trades[1] # trades[2]

\* the bar at which trade t's entry, and its exit, were signalled
EntrySignalBar(t) == t.entry_index - 1

ExitSignalBar(t) == t.exit_index - 1

\* C21: on a series of any length the loop evaluates bars 1..len-2 only,
\* every bar a step reads (i-1, i, i+1, the last bar in the flush) is one of
\* 0..len-1, and no entry and no signalled exit is signalled at the last
\* bar.
C21_AccessesInRange ==
    /\ BarAccesses \subseteq 0..(NBars - 1)
    /\ InLoop => (1 <= i /\ i <= NBars - 2)
    /\ position = 1 => entry_index - 1 \in 1..(NBars - 2)
    /\ \A k \in 1..Len(trades) :
          /\ EntrySignalBar(trades[k]) \in 1..(NBars - 2)
          /\ trades[k].exit_reason # "end_of_data"
                => ExitSignalBar(trades[k]) \in 1..(NBars - 2)
          /\ trades[k].exit_reason = "end_of_data"
                => trades[k].exit_index = NBars - 1

\* a finished run that is Flat with the entry condition true at the last
\* bar, after a trade closed by a signal
C21_Witness ==
    /\ pc = "done"
    /\ NBars = MaxLen
    /\ Len(trades) = 1
    /\ LastTrade.exit_reason # "end_of_data"
    /\ EntryGate(NBars - 1)
    /\ EntrySignal(NBars - 1)

\* the runs on 0, 1 and 2 bars end without reading a bar
C21_WitnessShort == pc = "done" /\ NBars = 2 /\ trades = <<>>

\* C22: risk_reward_ratio is 0 for an empty list, for a list with no gain
\* and for a list with no loss; otherwise it is the mean gain over the
\* absolute mean loss; and on a list of winning trades only it agrees with
\* profit_factor.
C22_RiskRewardAsProfitFactor ==
    pc = "reported" =>
        /\ (trades = <<>> \/ Wins = {} \/ Losses = {})
              => report.risk_reward_ratio = Zero
        /\ (Wins # {} /\ Losses # {})
              => IsQuotient(report.risk_reward_ratio,
                            ProfitOver(Wins) * Cardinality(Losses),
                            Abs(ProfitOver(Losses)) * Cardinality(Wins))
        /\ (Wins # {} /\ Losses = {})
              => report.risk_reward_ratio = report.profit_factor

\* C23: the metrics return a value on short input: msr and sharpe_ratio are
\* 0 on fewer than 2 returns, msr is 0 whenever the MAD is 0, sharpe_ratio
\* is 0 whenever the returns are all equal (standard deviation 0),
\* max_drawdown and expectancy are 0 on empty input, and the shortest-5 and
\* longest-5 hold averages are 0 with fewer than 5 trades.
C23_MetricsDegrade ==
    /\ Len(returns) < 2 =>
          calculate_msr(returns) = Zero /\ calculate_sharpe_ratio(returns) = Zero
    /\ (returns # <<>> /\ Mad4(ValuesOf(returns)) = 0) =>
          calculate_msr(returns) = Zero
    /\ AllEqual(ValuesOf(returns)) => calculate_sharpe_ratio(returns) = Zero
    /\ returns = <<>> => calculate_max_drawdown(returns) = Zero
    /\ trades = <<>> => calculate_expectancy(trades) = Zero
    /\ Len(trades) < 5 =>
          /\ calculate_additional_metrics(trades).shortest_5_avg = Zero
          /\ calculate_additional_metrics(trades).longest_5_avg = Zero
    /\ pc = "reported" =>
          /\ Len(trades) < 2 => report.msr = Zero /\ report.sharpe_ratio = Zero
          /\ Len(trades) = 0 =>
                report.max_drawdown = Zero /\ report.expectancy = Zero
          /\ Len(trades) \in 1..4 =>
                report.shortest_5_avg = Zero /\ report.longest_5_avg = Zero
          /\ \A f \in {"msr", "expectancy"} : ~report[f].nan

\* a report on four trades whose returns have MAD 0 without being all equal
C23_Witness ==
    /\ pc = "reported"
    /\ Len(trades) = 4
    /\ Mad4(ValuesOf(returns)) = 0
    /\ ~AllEqual(ValuesOf(returns))
    /\ report.msr = Zero
    /\ report.sharpe_ratio # Zero
    /\ report.shortest_5_avg = Zero

\* a report on a single trade, and one on five trades with non-zero averages
C23_WitnessSingle == pc = "reported" /\ Len(trades) = 1 /\ report.msr = Zero

C23_WitnessFive ==
    /\ pc = "reported"
    /\ Len(trades) = 5
    /\ report.shortest_5_avg = Val(15, 5)

\* the first bar at which the short MA crosses above the long MA
FirstCross ==
    CHOOSE k \in 1..(NBars - 1) :
        golden_cross(k) /\ \A j \in 1..(k - 1) : ~golden_cross(j)

\* the first bar after bar b at which the short MA is below the long MA
FirstDeathAfter(b) ==
    CHOOSE k \in (b + 1)..(NBars - 1) :
        death_cross(k) /\ \A j \in (b + 1)..(k - 1) : ~death_cross(j)

SpikeAtScenarioBar == Close(Scenario.spike_at) = Scenario.spike

\* C24: variant 1 on the flat series with the spike at bar 80 takes one
\* entry, signalled at the spike bar, the first bar where the short MA
\* crosses above the long MA, and filled at the next open; it closes it
\* with reason death_cross at the first later bar where the short MA is
\* below the long MA, the bar at which the spike has left the short window,
\* filled at the following open; and it makes no other trade.
C24_SpikeScenario ==
    SpikeAtScenarioBar =>
        /\ n_entries <= 1
        /\ Len(trades) <= 1
        /\ n_entries = 1 =>
              /\ entry_index = FirstCross + 1
              /\ FirstCross = Scenario.spike_at
              /\ entry_price = Open(FirstCross + 1)
        /\ pc = "done" =>
              /\ Len(trades) = 1
              /\ trades[1].entry_index = Scenario.spike_at + 1
              /\ trades[1].entry_price = Open(Scenario.spike_at + 1)
              /\ trades[1].exit_reason = "death_cross"
              /\ trades[1].exit_index = FirstDeathAfter(FirstCross) + 1
              /\ FirstDeathAfter(FirstCross)
                    = Scenario.spike_at + params.ma_short
              /\ trades[1].exit_price
                    = Open(FirstDeathAfter(FirstCross) + 1)
              /\ position = 0

\* the scenario run has ended with its trade
C24_Witness ==
    /\ SpikeAtScenarioBar
    /\ NBars = Scenario.len
    /\ pc = "done"
    /\ Len(trades) = 1
    /\ trades[1].exit_reason = "death_cross"
    /\ Open(Scenario.spike_at) = Scenario.base

RECURSIVE SumOfProfit(_)
SumOfProfit(trs) ==
    IF trs = <<>> THEN 0 ELSE Head(trs).profit + SumOfProfit(Tail(trs))

RECURSIVE SumOfEntryFee(_)
SumOfEntryFee(trs) ==
    IF trs = <<>> THEN 0 ELSE Head(trs).entry_fee + SumOfEntryFee(Tail(trs))

CapitalAccount ==
    pc # "call" =>
        capital = params.initial_capital + SumOfProfit(trades)
                      - SumOfEntryFee(trades)

CapitalStep ==
    pc # "call" =>
        /\ capital' # capital => Len(trades') = Len(trades) + 1
        /\ trades' = trades => capital' = capital

\* C25: throughout a run the capital is initial_capital plus the recorded
\* profit of all trades so far minus their recorded entry fees, and a step
\* changes the capital only when it records a trade: the bar of an entry
\* and the bars on which nothing closes leave it as it was.
C25_CapitalAccount == []CapitalAccount /\ [][CapitalStep]_vars

\* a trade recorded, a position open again, the entry fee not zero
C25_Witness ==
    /\ pc = "scan"
    /\ Len(trades) = 1
    /\ position = 1
    /\ SumOfEntryFee(trades) > 0
    /\ capital # params.initial_capital + SumOfProfit(trades)

\* fewer bars than max(ma_long, will_period_1) + 2
TooShort == NBars < Max2(params.ma_long, params.will_period_1) + 2

\* C28: a run over fewer than max(ma_long, will_period_1) + 2 bars, the
\* empty series and the series of one or two bars included, reads no bar,
\* opens no position and returns an empty trade list, an empty returns
\* series and the initial capital; and every run that records no trade
\* returns the initial capital.
C28_ShortSeriesNoTrade ==
    /\ pc \in {"call", "scan", "done"}
    /\ TooShort /\ pc # "call" =>
           /\ BarAccesses = {}
           /\ position = 0
           /\ trades = <<>>
           /\ capital = params.initial_capital
           /\ pc = "done" => returns = <<>>
    /\ pc = "done" /\ trades = <<>> =>
           /\ returns = <<>>
           /\ capital = params.initial_capital

\* a run one bar too short has ended, the entry conditions having held at
\* its last scanned bar
C28_Witness ==
    /\ pc = "done"
    /\ NBars = Max2(params.ma_long, params.will_period_1) + 1
    /\ EntrySignal(NBars - 2)
    /\ trades = <<>>
    /\ capital = params.initial_capital

\* a run over the empty series has ended
C28_WitnessEmpty ==
    /\ pc = "done"
    /\ NBars = 0
    /\ returns = <<>>

\* a run long enough to trade has ended without a trade
C28_WitnessNoTrade ==
    /\ pc = "done"
    /\ ~TooShort
    /\ trades = <<>>
    /\ capital = params.initial_capital

\* the last run the session recorded
LastRun == history[Len(history)]

Reported == pc = "idle" /\ history # <<>>

\* (final_capital - initial_capital) / initial_capital of the last run
RunReturn ==
    Val(LastRun.capital - params.initial_capital, params.initial_capital)

\* two quotients written over their own denominators are the same value
SameQuotient(a, b) ==
    \/ a.num = 0 /\ b.num = 0
    \/ a.num = b.num /\ a.den = b.den

\* C26 as stated: the report made from the values a run returned has
\* final_capital equal to the run's returned capital, trade_count equal to
\* the length of its trade list and total_return equal to
\* (final_capital - initial_capital) / initial_capital, for runs without a
\* trade and for runs started with another initial_capital than 1,000,000.
C26_ReportMatchesRun ==
    Reported =>
        /\ report.final_capital = LastRun.capital
        /\ report.trade_count = Len(LastRun.trades)
        /\ SameQuotient(report.total_return, RunReturn)

\* the fields of the report made for a list of one trade
NonEmptyReportFields ==
    DOMAIN generate_performance_report(<<MetricTrade(0, 1)>>,
                                       BuildReturns(<<MetricTrade(0, 1)>>),
                                       StrategyName(1))

\* C27 as stated: every report has the same fields; the report for an
\* empty trade list has every field of the report for a non-empty list,
\* shortest_5_avg and longest_5_avg included, with the value 0.
C27_SameReportFields ==
    pc = "reported" =>
        /\ DOMAIN report = NonEmptyReportFields
        /\ trades = <<>> =>
               /\ report.shortest_5_avg = Zero
               /\ report.longest_5_avg = Zero

====
